---- MODULE Spec2Model ----
(***************************************************************************)
(* Email address groups of NeoMutt (group.c): the process-wide registry    *)
(* Groups (a hash table keyed by group name), the struct Group objects it  *)
(* owns, and the GroupContext lists that fan one operation out to several  *)
(* Groups.                                                                 *)
(*                                                                         *)
(* A struct Group lives in a heap cell; a pointer is the cell's address    *)
(* and NULL is address 0.  Freeing a Group makes its cell available again, *)
(* so a later mutt_mem_calloc may hand out the same address.  A pointer to *)
(* a freed cell is dangling: dereferencing it is undefined behaviour, and  *)
(* every such access is a choice between the process dying and the access  *)
(* going unnoticed.                                                        *)
(*                                                                         *)
(* C strings are sequences of character codes; the NULL string is NullStr. *)
(* An Address list is the sequence of its mailbox strings and the NULL     *)
(* list is the empty sequence, as is a NULL RegexList.                     *)
(***************************************************************************)
EXTENDS Integers, Sequences, FiniteSets, TLC

VARIABLES heap,     \* address -> struct Group cell
          Groups,   \* the hash table: a set of <<key, data>> entries
          ctx,      \* context id -> list of Group pointers (struct GroupContext *)
          op,       \* the operation that ran last
          ret,      \* what it returned
          crashed,  \* the process died in undefined behaviour
          destroyed \* history: names whose Group a remove destroyed as empty,
                    \* and that no operation found live since

vars == <<heap, Groups, ctx, op, ret, crashed, destroyed>>

----------------------------------------------------------------------------
(* Bounds of the model *)

MaxAddr == 2      \* heap cells a struct Group can be allocated in
MaxAs == 1        \* longest address list a Group holds
MatchLen == 2     \* longest address and regex list of a Group that is matched
AddrLen == 3      \* longest address list where the list functions are checked alone

----------------------------------------------------------------------------
(* Pointers and strings *)

NULL == 0
Addr == 1..MaxAddr
Ptr == 0..MaxAddr

NullStr == <<-1>>

Str_t == <<116>>          \* "t"
Str_v == <<118>>          \* "v"
Str_a == <<97>>           \* "a"
Str_A == <<65>>           \* "A"
Str_b == <<98>>           \* "b"
Str_ab == <<97, 98>>      \* "ab"
Str_empty == <<>>         \* ""
Pat_a == <<94, 97>>       \* "^a"
Pat_b == <<98>>           \* "b"
Pat_bad == <<91>>         \* "[" does not compile

REG_ICASE == 2

\* one configuration statement is processed at a time, with its GroupContext
CtxIds == {"c1"}

(* Inputs of the operations *)
Names == {Str_t, Str_v}
NameArgs == Names \cup {NullStr}
AddrLists == {<<>>, <<Str_a>>, <<Str_A>>}
RegexArgs == {<<Pat_a, 0>>, <<Pat_bad, 0>>}
RemoveRegexArgs == {Pat_a, Pat_b}
Candidates == {NullStr, Str_empty, Str_a, Str_A, Str_b, Str_ab}
MatchMailboxes == {NullStr, Str_a, Str_A, Str_ab}
AddrMailboxes == {Str_a, Str_A, Str_b}
MatchRegexes == {[pattern |-> Pat_a, flags |-> 0],
                 [pattern |-> Pat_a, flags |-> REG_ICASE],
                 [pattern |-> Pat_b, flags |-> 0]}

----------------------------------------------------------------------------
(* String utilities *)

tolower(c) == IF c >= 65 /\ c <= 90 THEN c + 32 ELSE c

Lower(s) == [i \in 1..Len(s) |-> tolower(s[i])]

NONULL(s) == IF s = NullStr THEN <<>> ELSE s

mutt_str_strcasecmp(a, b) == IF Lower(NONULL(a)) = Lower(NONULL(b)) THEN 0 ELSE 1

----------------------------------------------------------------------------
(* Hash table *)

mutt_hash_find(table, k) ==
  IF \E e \in table : e[1] = k
  THEN (CHOOSE e \in table : e[1] = k)[2]
  ELSE NULL

mutt_hash_insert(table, k, p) == table \cup {<<k, p>>}

mutt_hash_delete(table, k, p) == {e \in table : ~(e[1] = k /\ e[2] = p)}

----------------------------------------------------------------------------
(* Regex list *)

\* a pattern compiles unless it opens a bracket expression it never closes
mutt_regex_compile(s) ==
  \A i \in 1..Len(s) : s[i] = 91 => \E j \in (i+1)..Len(s) : s[j] = 93

IsPrefix(p, s) == Len(p) <= Len(s) /\ \A i \in 1..Len(p) : s[i] = p[i]

IsInfix(p, s) ==
  \E k \in 0..Len(s) :
    k + Len(p) <= Len(s) /\ \A i \in 1..Len(p) : s[k + i] = p[i]

\* one compiled pattern against a string: an optional ^ anchor, then literals
regexec(r, s) ==
  LET P == IF r.flags = REG_ICASE THEN Lower(r.pattern) ELSE r.pattern
      S == IF r.flags = REG_ICASE THEN Lower(s) ELSE s
  IN  IF Len(P) > 0 /\ P[1] = 94
      THEN IsPrefix(Tail(P), S)
      ELSE IsInfix(P, S)

\* the list is a set of patterns: one already on it is not added again
mutt_regexlist_add(rs, s, flags) ==
  IF ~mutt_regex_compile(s)
  THEN [rc |-> -1, rs |-> rs]
  ELSE IF \E i \in 1..Len(rs) : rs[i].pattern = s
  THEN [rc |-> 0, rs |-> rs]
  ELSE [rc |-> 0, rs |-> Append(rs, [pattern |-> s, flags |-> flags])]

mutt_regexlist_remove(rs, s) ==
  IF \E i \in 1..Len(rs) : rs[i].pattern = s
  THEN [rc |-> 0, rs |-> SelectSeq(rs, LAMBDA r : r.pattern # s)]
  ELSE [rc |-> -1, rs |-> rs]

mutt_regexlist_match(rs, s) == \E i \in 1..Len(rs) : regexec(rs[i], s)

----------------------------------------------------------------------------
(* Address list *)

mutt_addr_copy_list(a) == [i \in 1..Len(a) |-> a[i]]

\* the copies are fresh records: none is cross-referenced from the Group's list
mutt_remove_xrefs(as, q) == q

mutt_addr_remove_from_list(as, mailbox) == SelectSeq(as, LAMBDA m : m # mailbox)

----------------------------------------------------------------------------
(* struct Group *)

FreeCell == [live |-> FALSE, name |-> NullStr, as |-> <<>>, rs |-> <<>>]

NewGroup(k) == [live |-> TRUE, name |-> k, as |-> <<>>, rs |-> <<>>]

IsDangling(h, g) == g # NULL /\ ~h[g].live

Registered == {e[2] : e \in Groups}

Init ==
  /\ heap = [a \in Addr |-> FreeCell]
  /\ Groups = {}
  /\ ctx = [c \in CtxIds |-> <<>>]
  /\ op = "init"
  /\ ret = 0
  /\ crashed = FALSE
  /\ destroyed = {}

----------------------------------------------------------------------------
(* Undefined behaviour.  An access through a dangling Group pointer either *)
(* kills the process (crash) or goes unnoticed; when it goes unnoticed a   *)
(* status read from the freed cell is either value (rc).                   *)

UBCrash == [crash |-> TRUE, rc |-> 0]

NoUB == [crash |-> FALSE, rc |-> 0]

UBUnnoticed == {NoUB, [crash |-> FALSE, rc |-> -1]}

DanglingAt(h, l) == {i \in 1..Len(l) : IsDangling(h, l[i])}

\* The outcome of the access at each position of the list that dangles now.
\* A process that dies at any of them ends in the same state, so one choice
\* stands for the crash.
UBChoices(h, l) ==
  IF DanglingAt(h, l) = {} THEN {<<>>}
  ELSE {[i \in DanglingAt(h, l) |-> UBCrash], [i \in DanglingAt(h, l) |-> NoUB]}

\* the same, where the access also reads a status out of the freed cell
UBStatusChoices(h, l) ==
  IF DanglingAt(h, l) = {} THEN {<<>>}
  ELSE {[i \in DanglingAt(h, l) |-> UBCrash]} \cup [DanglingAt(h, l) -> UBUnnoticed]

UBAt(ub, i) == IF i \in DOMAIN ub THEN ub[i] ELSE NoUB

\* the state a fan-out threads through its loop
\* the destroyed names that have no live Group when an operation begins
StillGone == {n \in destroyed : \A a \in Addr : ~(heap[a].live /\ heap[a].name = n)}

Start == [heap |-> heap, groups |-> Groups, rc |-> 0, crashed |-> FALSE,
          gone |-> StillGone]

\* the process is gone, and its memory with it
Crash(st) == [heap |-> [a \in Addr |-> FreeCell], groups |-> {}, rc |-> 0,
              crashed |-> TRUE, gone |-> {}]

----------------------------------------------------------------------------
(* mutt_pattern_group *)

FreeAddrs == {a \in Addr : ~heap[a].live}

\* a slip: the new Group is never entered in the hash table
mutt_pattern_group_NoInsert(k) ==
  IF k = NullStr
  THEN ret' = NULL /\ UNCHANGED <<heap, Groups>>
  ELSE LET p == mutt_hash_find(Groups, k)
       IN  IF p # NULL
           THEN ret' = p /\ UNCHANGED <<heap, Groups>>
           ELSE \E a \in FreeAddrs :
                  /\ heap' = [heap EXCEPT ![a] = NewGroup(k)]
                  /\ Groups' = Groups
                  /\ ret' = a

\* a slip: the name is not looked up, every call makes a Group
mutt_pattern_group_NoFind(k) ==
  IF k = NullStr
  THEN ret' = NULL /\ UNCHANGED <<heap, Groups>>
  ELSE \E a \in FreeAddrs :
         /\ heap' = [heap EXCEPT ![a] = NewGroup(k)]
         /\ Groups' = mutt_hash_insert(Groups, k, a)
         /\ ret' = a

\* a slip: the name is only looked up, a Group is never made for it
mutt_pattern_group_NoCreate(k) ==
  /\ ret' = IF k = NullStr THEN NULL ELSE mutt_hash_find(Groups, k)
  /\ UNCHANGED <<heap, Groups>>

mutt_pattern_group(k) ==
  IF k = NullStr
  THEN ret' = NULL /\ UNCHANGED <<heap, Groups>>
  ELSE LET p == mutt_hash_find(Groups, k)
       IN  IF p # NULL
           THEN ret' = p /\ UNCHANGED <<heap, Groups>>
           ELSE \E a \in FreeAddrs :
                  /\ heap' = [heap EXCEPT ![a] = NewGroup(k)]
                  /\ Groups' = mutt_hash_insert(Groups, k, a)
                  /\ ret' = a

PatternGroup(k) ==
  /\ ~crashed
  /\ mutt_pattern_group(k)
  /\ op' = "pattern_group"
  /\ destroyed' = StillGone
  /\ UNCHANGED <<ctx, crashed>>

----------------------------------------------------------------------------
(* group_remove, empty_group *)

\* a slip: the Group is freed but its entry stays in the hash table
group_remove_NoDelete(g, u, st) ==
  IF g = NULL THEN st
  ELSE IF IsDangling(st.heap, g)
  THEN IF u.crash THEN Crash(st) ELSE st
  ELSE [st EXCEPT !.heap = [@ EXCEPT ![g] = FreeCell]]

group_remove(g, u, st) ==
  IF g = NULL THEN st
  ELSE IF IsDangling(st.heap, g)
  THEN IF u.crash THEN Crash(st) ELSE st
  ELSE [st EXCEPT !.groups = mutt_hash_delete(@, st.heap[g].name, g),
                  !.heap = [@ EXCEPT ![g] = FreeCell]]

empty_group(h, g) ==
  IF g = NULL THEN -1
  ELSE IF h[g].as = <<>> /\ h[g].rs = <<>> THEN 1 ELSE 0

----------------------------------------------------------------------------
(* mutt_group_context_clear, mutt_group_context_add,                       *)
(* mutt_group_context_destroy                                              *)

\* a slip: the clear destroys every Group of the registry
mutt_group_context_clear_All(l, i, ub, st) ==
  IF st.crashed THEN st
  ELSE [st EXCEPT !.groups = {}, !.heap = [a \in Addr |-> FreeCell]]

RECURSIVE mutt_group_context_clear(_, _, _, _)
mutt_group_context_clear(l, i, ub, st) ==
  IF i > Len(l) \/ st.crashed THEN st
  ELSE mutt_group_context_clear(l, i + 1, ub, group_remove(l[i], UBAt(ub, i), st))

ContextClear(c) ==
  /\ ~crashed
  /\ \E ub \in UBChoices(heap, ctx[c]) :
       LET st == mutt_group_context_clear(ctx[c], 1, ub, Start)
       IN  /\ heap' = st.heap
           /\ Groups' = st.groups
           /\ crashed' = st.crashed
           /\ ctx' = IF st.crashed THEN [d \in CtxIds |-> <<>>]
                     ELSE [ctx EXCEPT ![c] = <<>>]
           /\ ret' = 0
           /\ destroyed' = st.gone
  /\ op' = "clear"

\* a slip: the list is not searched for the Group before it is appended
mutt_group_context_add_NoDedup(l, group) == Append(l, group)

RECURSIVE mutt_group_context_add(_, _)
mutt_group_context_add(l, group) ==
  IF l = <<>> THEN <<group>>
  ELSE IF Head(l) = group THEN l
  ELSE <<Head(l)>> \o mutt_group_context_add(Tail(l), group)

\* the caller adds what mutt_pattern_group gave it for the name of a group
ContextAdd(c, group) ==
  /\ ~crashed
  /\ group \in Registered
  /\ ctx' = [ctx EXCEPT ![c] = mutt_group_context_add(@, group)]
  /\ op' = "context_add"
  /\ ret' = 0
  /\ destroyed' = StillGone
  /\ UNCHANGED <<heap, Groups, crashed>>

\* a slip: the Groups are destroyed with the list, as the clear does
mutt_group_context_destroy_Groups(l, i, st) ==
  mutt_group_context_clear(l, i, <<>>, st)

\* the nodes of the list are freed one by one; no Group is looked at
RECURSIVE mutt_group_context_destroy(_, _, _)
mutt_group_context_destroy(l, i, st) ==
  IF i > Len(l) THEN st
  ELSE mutt_group_context_destroy(l, i + 1, st)

ContextDestroy(c) ==
  /\ ~crashed
  /\ LET st == mutt_group_context_destroy(ctx[c], 1, Start)
     IN  /\ heap' = st.heap
         /\ Groups' = st.groups
         /\ destroyed' = st.gone
  /\ ctx' = [ctx EXCEPT ![c] = <<>>]
  /\ op' = "context_destroy"
  /\ ret' = 0
  /\ UNCHANGED crashed

----------------------------------------------------------------------------
(* group_add_addrlist, group_remove_addrlist, group_add_regex,             *)
(* group_remove_regex: one Group                                           *)

\* a slip: the copies are linked in at the head of the Group's list
group_add_addrlist_AtHead(g, a, u, st) ==
  IF g = NULL THEN st
  ELSE IF a = <<>> THEN st
  ELSE IF IsDangling(st.heap, g)
  THEN IF u.crash THEN Crash(st) ELSE st
  ELSE LET q == mutt_remove_xrefs(st.heap[g].as, mutt_addr_copy_list(a))
       IN  [st EXCEPT !.heap = [@ EXCEPT ![g].as = q \o @]]

group_add_addrlist(g, a, u, st) ==
  IF g = NULL THEN st
  ELSE IF a = <<>> THEN st
  ELSE IF IsDangling(st.heap, g)
  THEN IF u.crash THEN Crash(st) ELSE st
  ELSE LET q == mutt_remove_xrefs(st.heap[g].as, mutt_addr_copy_list(a))
       IN  [st EXCEPT !.heap = [@ EXCEPT ![g].as = @ \o q]]

\* a slip: the loop over a does not advance, only its first mailbox is removed
RemoveEach_FirstOnly(as, a) ==
  IF a = <<>> THEN as
  ELSE mutt_addr_remove_from_list(as, Head(a))

RECURSIVE RemoveEach(_, _)
RemoveEach(as, a) ==
  IF a = <<>> THEN as
  ELSE RemoveEach(mutt_addr_remove_from_list(as, Head(a)), Tail(a))

group_remove_addrlist(g, a, u, st) ==
  IF g = NULL THEN [st EXCEPT !.rc = -1]
  ELSE IF a = <<>> THEN [st EXCEPT !.rc = -1]
  ELSE IF IsDangling(st.heap, g)
  THEN IF u.crash THEN Crash(st) ELSE [st EXCEPT !.rc = 0]
  ELSE [st EXCEPT !.rc = 0,
                  !.heap = [@ EXCEPT ![g].as = RemoveEach(@, a)]]

\* a slip: the status of mutt_regexlist_add is dropped
group_add_regex_NoStatus(g, s, flags, u, st) ==
  IF ~mutt_regex_compile(s) THEN [st EXCEPT !.rc = 0]
  ELSE IF g = NULL THEN Crash(st)
  ELSE IF IsDangling(st.heap, g)
  THEN IF u.crash THEN Crash(st) ELSE [st EXCEPT !.rc = 0]
  ELSE LET r == mutt_regexlist_add(st.heap[g].rs, s, flags)
       IN  [st EXCEPT !.rc = 0, !.heap = [@ EXCEPT ![g].rs = r.rs]]

\* mutt_regexlist_add compiles s before it looks at the list behind &g->rs
group_add_regex(g, s, flags, u, st) ==
  IF ~mutt_regex_compile(s) THEN [st EXCEPT !.rc = -1]
  ELSE IF g = NULL THEN Crash(st)
  ELSE IF IsDangling(st.heap, g)
  THEN IF u.crash THEN Crash(st) ELSE [st EXCEPT !.rc = 0]
  ELSE LET r == mutt_regexlist_add(st.heap[g].rs, s, flags)
       IN  [st EXCEPT !.rc = r.rc, !.heap = [@ EXCEPT ![g].rs = r.rs]]

group_remove_regex(g, s, u, st) ==
  IF g = NULL THEN Crash(st)
  ELSE IF IsDangling(st.heap, g)
  THEN IF u.crash THEN Crash(st) ELSE [st EXCEPT !.rc = u.rc]
  ELSE LET r == mutt_regexlist_remove(st.heap[g].rs, s)
       IN  [st EXCEPT !.rc = r.rc, !.heap = [@ EXCEPT ![g].rs = r.rs]]

\* a slip: the emptiness check is left out of the remove fan-outs
DestroyIfEmpty_Never(g, u, st) == st

\* if (empty_group(ctx->g)) group_remove(ctx->g);
\* reading the freed cell of a dangling g may find it empty or not
\* a slip: the emptiness check is made only after a removal that succeeded
DestroyIfEmpty_OnSuccess(g, u, st) ==
  IF st.crashed \/ st.rc # 0 THEN st
  ELSE IF IsDangling(st.heap, g) THEN group_remove(g, u, st)
  ELSE IF empty_group(st.heap, g) # 0
  THEN LET after == group_remove(g, u, st)
       IN  IF g = NULL THEN after
           ELSE [after EXCEPT !.gone = @ \cup {st.heap[g].name}]
  ELSE st

DestroyIfEmpty(g, u, st) ==
  IF st.crashed THEN st
  ELSE IF IsDangling(st.heap, g) THEN group_remove(g, u, st)
  ELSE IF empty_group(st.heap, g) # 0
  THEN LET after == group_remove(g, u, st)
       IN  IF g = NULL THEN after
           ELSE [after EXCEPT !.gone = @ \cup {st.heap[g].name}]
  ELSE st

----------------------------------------------------------------------------
(* The fan-outs over a GroupContext list *)

RECURSIVE mutt_group_context_add_addrlist(_, _, _, _, _)
mutt_group_context_add_addrlist(l, i, a, ub, st) ==
  IF i > Len(l) \/ st.crashed THEN st
  ELSE mutt_group_context_add_addrlist(l, i + 1, a, ub,
         group_add_addrlist(l[i], a, UBAt(ub, i), st))

RECURSIVE mutt_group_context_remove_addrlist(_, _, _, _, _)
mutt_group_context_remove_addrlist(l, i, a, ub, st) ==
  IF st.rc # 0 \/ i > Len(l) \/ st.crashed THEN st
  ELSE mutt_group_context_remove_addrlist(l, i + 1, a, ub,
         DestroyIfEmpty(l[i], UBAt(ub, i),
           group_remove_addrlist(l[i], a, UBAt(ub, i), st)))

RECURSIVE mutt_group_context_add_regex(_, _, _, _, _, _)
mutt_group_context_add_regex(l, i, s, flags, ub, st) ==
  IF st.rc # 0 \/ i > Len(l) \/ st.crashed THEN st
  ELSE mutt_group_context_add_regex(l, i + 1, s, flags, ub,
         group_add_regex(l[i], s, flags, UBAt(ub, i), st))

\* a slip: the loop does not test rc, so it goes on after a failure
RECURSIVE mutt_group_context_remove_regex_NoStop(_, _, _, _, _)
mutt_group_context_remove_regex_NoStop(l, i, s, ub, st) ==
  IF i > Len(l) \/ st.crashed THEN st
  ELSE mutt_group_context_remove_regex_NoStop(l, i + 1, s, ub,
         DestroyIfEmpty(l[i], UBAt(ub, i),
           group_remove_regex(l[i], s, UBAt(ub, i), st)))

RECURSIVE mutt_group_context_remove_regex(_, _, _, _, _)
mutt_group_context_remove_regex(l, i, s, ub, st) ==
  IF st.rc # 0 \/ i > Len(l) \/ st.crashed THEN st
  ELSE mutt_group_context_remove_regex(l, i + 1, s, ub,
         DestroyIfEmpty(l[i], UBAt(ub, i),
           group_remove_regex(l[i], s, UBAt(ub, i), st)))

\* what a fan-out leaves behind; a call that died returns nothing
Finish(st, name, status) ==
  /\ heap' = st.heap
  /\ Groups' = st.groups
  /\ crashed' = st.crashed
  /\ ret' = IF st.crashed THEN 0 ELSE status
  /\ op' = name
  /\ destroyed' = st.gone
  /\ ctx' = IF st.crashed THEN [d \in CtxIds |-> <<>>] ELSE ctx

LiveIn(l) == {l[i] : i \in 1..Len(l)} \cap {g \in Addr : heap[g].live}

\* address lists are kept within n addresses
ContextAddAddrlistWithin(c, a, n) ==
  /\ ~crashed
  /\ \A g \in LiveIn(ctx[c]) : Len(heap[g].as) + Len(a) <= n
  /\ \E ub \in UBChoices(heap, ctx[c]) :
       Finish(mutt_group_context_add_addrlist(ctx[c], 1, a, ub, Start),
              "add_addrlist", 0)

ContextAddAddrlist(c, a) == ContextAddAddrlistWithin(c, a, MaxAs)

ContextRemoveAddrlist(c, a) ==
  /\ ~crashed
  /\ \E ub \in UBChoices(heap, ctx[c]) :
       LET st == mutt_group_context_remove_addrlist(ctx[c], 1, a, ub, Start)
       IN  Finish(st, "remove_addrlist", st.rc)

ContextAddRegex(c, s, flags) ==
  /\ ~crashed
  /\ \E ub \in UBChoices(heap, ctx[c]) :
       LET st == mutt_group_context_add_regex(ctx[c], 1, s, flags, ub, Start)
       IN  Finish(st, "add_regex", st.rc)

ContextRemoveRegex(c, s) ==
  /\ ~crashed
  /\ \E ub \in UBStatusChoices(heap, ctx[c]) :
       LET st == mutt_group_context_remove_regex(ctx[c], 1, s, ub, Start)
       IN  Finish(st, "remove_regex", st.rc)

----------------------------------------------------------------------------
(* mutt_group_match *)

\* a slip: the mailbox is compared without the test that it is there
RECURSIVE AddrLoop_NoNullTest(_, _)
AddrLoop_NoNullTest(as, s) ==
  IF as = <<>> THEN FALSE
  ELSE IF mutt_str_strcasecmp(s, Head(as)) = 0 THEN TRUE
  ELSE AddrLoop_NoNullTest(Tail(as), s)

RECURSIVE AddrLoop(_, _)
AddrLoop(as, s) ==
  IF as = <<>> THEN FALSE
  ELSE IF Head(as) # NullStr /\ mutt_str_strcasecmp(s, Head(as)) = 0 THEN TRUE
  ELSE AddrLoop(Tail(as), s)

mutt_group_match(h, g, s) ==
  IF g = NULL \/ s = NullStr THEN FALSE
  ELSE IF mutt_regexlist_match(h[g].rs, s) THEN TRUE
  ELSE AddrLoop(h[g].as, s)

GroupMatch(g, s) ==
  /\ ~crashed
  /\ g \in Registered \cup {NULL}
  /\ ret' = IF mutt_group_match(heap, g, s) THEN 1 ELSE 0
  /\ op' = "match"
  /\ destroyed' = StillGone
  /\ UNCHANGED <<heap, Groups, ctx, crashed>>

\* Matching is a pure function of a Group and a string: it is checked on
\* every Group of a bounded shape.
SeqsUpTo(S, n) == UNION {[1..m -> S] : m \in 0..n}

InitMatch ==
  /\ \E as \in SeqsUpTo(MatchMailboxes, MatchLen), rs \in SeqsUpTo(MatchRegexes, MatchLen) :
       heap = [a \in Addr |->
                 IF a = 1 THEN [live |-> TRUE, name |-> Str_t, as |-> as, rs |-> rs]
                 ELSE FreeCell]
  /\ Groups = {<<Str_t, 1>>}
  /\ ctx = [c \in CtxIds |-> <<>>]
  /\ op = "init"
  /\ ret = 0
  /\ crashed = FALSE
  /\ destroyed = {}

NextMatch == \E g \in Ptr, s \in Candidates : GroupMatch(g, s)

SpecMatch == InitMatch /\ [][NextMatch]_vars

----------------------------------------------------------------------------

Next ==
  \/ \E k \in NameArgs : PatternGroup(k)
  \/ \E c \in CtxIds, g \in Ptr : ContextAdd(c, g)
  \/ \E c \in CtxIds : ContextDestroy(c)
  \/ \E c \in CtxIds : ContextClear(c)
  \/ \E c \in CtxIds, a \in AddrLists : ContextAddAddrlist(c, a)
  \/ \E c \in CtxIds, a \in AddrLists : ContextRemoveAddrlist(c, a)
  \/ \E c \in CtxIds, r \in RegexArgs : ContextAddRegex(c, r[1], r[2])
  \/ \E c \in CtxIds, s \in RemoveRegexArgs : ContextRemoveRegex(c, s)

Spec == Init /\ [][Next]_vars

----------------------------------------------------------------------------
(* The address-list functions on Groups of a bounded shape *)

\* group_remove_addrlist called on one Group, as the remove fan-out calls it
GroupRemoveAddrlist(g, a) ==
  /\ ~crashed
  /\ g \in Registered \cup {NULL}
  /\ LET st == group_remove_addrlist(g, a, NoUB, Start)
     IN  Finish(st, "group_remove_addrlist", st.rc)

\* the lists handed to the two functions
AddrArgs == {<<>>, <<Str_a>>, <<Str_A>>, <<Str_b, Str_a>>}

AddrShapes == SeqsUpTo(AddrMailboxes, AddrLen)

\* two registered Groups, the first with any address list, none, one or both
\* of them on the context
InitAddr ==
  /\ \E as1 \in AddrShapes, as2 \in AddrArgs :
       heap = [a \in Addr |->
                 IF a = 1 THEN [live |-> TRUE, name |-> Str_t, as |-> as1, rs |-> <<>>]
                 ELSE IF a = 2 THEN [live |-> TRUE, name |-> Str_v, as |-> as2, rs |-> <<>>]
                 ELSE FreeCell]
  /\ Groups = {<<Str_t, 1>>, <<Str_v, 2>>}
  /\ \E l \in {<<>>, <<1>>, <<2, 1>>} : ctx = [c \in CtxIds |-> l]
  /\ op = "init"
  /\ ret = 0
  /\ crashed = FALSE
  /\ destroyed = {}

NextAddr ==
  \/ \E c \in CtxIds, a \in AddrArgs : ContextAddAddrlistWithin(c, a, AddrLen)
  \/ \E g \in Ptr, a \in AddrArgs : GroupRemoveAddrlist(g, a)

SpecAddr == InitAddr /\ [][NextAddr]_vars

----------------------------------------------------------------------------
(* Properties *)

Entries(l) == {l[i] : i \in 1..Len(l)}

IsEmptyCell(cell) == cell.as = <<>> /\ cell.rs = <<>>

InRegistry(h, table, g) == h[g].live /\ <<h[g].name, g>> \in table

Absent(h, table, g) == ~h[g].live /\ g \notin {e[2] : e \in table}

NameOf(h, p) == IF p = NULL THEN NullStr ELSE h[p].name

\* C1: resolving a name is idempotent.  When mutt_pattern_group is called
\* twice in a row for the same name, the second call returns the Group the
\* first returned and changes neither the registry nor any Group: only the
\* first call can create.
C1_ResolveIdempotent ==
  [][(/\ op = "pattern_group"
      /\ op' = "pattern_group"
      /\ \E k \in NameArgs : k = NameOf(heap, ret) /\ PatternGroup(k))
     => (ret' = ret /\ Groups' = Groups /\ heap' = heap)]_vars

\* a Group that existed, with content, before the call that returned it
C1_Witness ==
  op = "pattern_group" /\ ret # NULL /\ ~IsEmptyCell(heap[ret])

\* C2: group names are unique.  The registry holds exactly the live Groups,
\* each under its own name, no name twice and no Group under two names, so
\* distinct names resolve to distinct Groups; what mutt_pattern_group returns
\* for a name is the Group registered under it.
C2_UniqueNames ==
  /\ \A e1, e2 \in Groups : (e1[1] = e2[1]) <=> (e1[2] = e2[2])
  /\ \A e \in Groups : e[2] \in Addr /\ heap[e[2]].live /\ heap[e[2]].name = e[1]
  /\ \A a \in Addr : heap[a].live => <<heap[a].name, a>> \in Groups
  /\ (op = "pattern_group" /\ ret # NULL) => InRegistry(heap, Groups, ret)

\* two Groups of different names are registered, the second just resolved
C2_Witness ==
  /\ op = "pattern_group"
  /\ \E e1, e2 \in Groups : e1[1] # e2[1] /\ e1[2] # e2[2] /\ e2[2] = ret

\* C3: destroy-on-empty.  When a remove fan-out returns success, every Group
\* of the context that the removal left without addresses and patterns is
\* destroyed and absent from the registry, and every other Group of the
\* context is still registered, with what the removal left of it.
C3_DestroyOnEmpty ==
  [][/\ \A c \in CtxIds, a \in AddrLists :
          (/\ op' = "remove_addrlist" /\ ~crashed' /\ ret' = 0
           /\ ContextRemoveAddrlist(c, a)) =>
            \A g \in LiveIn(ctx[c]) :
              LET left == [heap[g] EXCEPT !.as = RemoveEach(@, a)]
              IN  IF IsEmptyCell(left)
                  THEN Absent(heap', Groups', g)
                  ELSE heap'[g] = left /\ InRegistry(heap', Groups', g)
     /\ \A c \in CtxIds, s \in RemoveRegexArgs :
          (/\ op' = "remove_regex" /\ ~crashed' /\ ret' = 0
           /\ ContextRemoveRegex(c, s)) =>
            \A g \in LiveIn(ctx[c]) :
              LET left == [heap[g] EXCEPT
                             !.rs = SelectSeq(@, LAMBDA r : r.pattern # s)]
              IN  IF IsEmptyCell(left)
                  THEN Absent(heap', Groups', g)
                  ELSE heap'[g] = left /\ InRegistry(heap', Groups', g)
    ]_vars

\* a successful remove_addrlist has destroyed one Group of the context, which
\* had no patterns, and kept another
C3_Witness ==
  /\ op = "remove_addrlist" /\ ret = 0 /\ ~crashed
  /\ \E c \in CtxIds : \E g1, g2 \in Entries(ctx[c]) :
       /\ ~heap[g1].live
       /\ heap[g2].live
       /\ \E n \in destroyed : n # heap[g2].name

\* equality of two strings that are there, letter case ignored
CaseEq(x, m) ==
  /\ Len(x) = Len(m)
  /\ \A i \in 1..Len(x) : tolower(x[i]) = tolower(m[i])

\* C4: mutt_group_match(g, x) is true exactly when g and x are there and x
\* equals, letter case ignored, the mailbox of some address of g or matches
\* some pattern of g; so it is false for a Group without addresses and
\* patterns and false when g or x is absent.
C4_MatchIff ==
  [][\A g \in Ptr, x \in Candidates :
       (op' = "match" /\ GroupMatch(g, x)) =>
         ((ret' = 1) <=>
            /\ g # NULL
            /\ x # NullStr
            /\ \/ \E i \in 1..Len(heap[g].as) :
                    heap[g].as[i] # NullStr /\ CaseEq(x, heap[g].as[i])
               \/ \E i \in 1..Len(heap[g].rs) : regexec(heap[g].rs[i], x))]_vars

\* a match found among the addresses of a Group that has no patterns and
\* holds an address without a mailbox
C4_Witness ==
  /\ op = "match" /\ ret = 1
  /\ heap[1].rs = <<>>
  /\ heap[1].as = <<NullStr, Str_A>>

NoDup(l) == \A i, j \in 1..Len(l) : l[i] = l[j] => i = j

\* C5: a GroupContext never holds a Group twice.  mutt_group_context_add
\* leaves the list as it is when the Group is already on it, and appends the
\* Group at the tail otherwise, so the list keeps the order of first
\* insertion.
C5_ContextDedup ==
  /\ [](\A c \in CtxIds : NoDup(ctx[c]))
  /\ [][\A c \in CtxIds, group \in Ptr :
          (op' = "context_add" /\ ContextAdd(c, group)) =>
            ctx'[c] = IF group \in Entries(ctx[c]) THEN ctx[c]
                      ELSE Append(ctx[c], group)]_vars

\* two Groups on the list after an add
C5_Witness ==
  op = "context_add" /\ \E c \in CtxIds : Len(ctx[c]) = 2

\* C6: mutt_group_context_add_regex with a pattern that does not compile, on
\* a context that is not empty, returns failure and changes no Group; and
\* whenever the fan-out returns failure no Group was modified.
C6_AddRegexInvalid ==
  [][\A c \in CtxIds, r \in RegexArgs :
       (op' = "add_regex" /\ ContextAddRegex(c, r[1], r[2])) =>
         /\ (r[1] = Pat_bad /\ ctx[c] # <<>>) =>
              (ret' = -1 /\ ~crashed' /\ heap' = heap /\ Groups' = Groups)
         /\ (ret' = -1) => (heap' = heap /\ Groups' = Groups)]_vars

\* the fan-out failed on a context of two live Groups
C6_Witness ==
  /\ op = "add_regex" /\ ret = -1
  /\ \E c \in CtxIds : Len(ctx[c]) = 2 /\ \A g \in Entries(ctx[c]) : heap[g].live

\* C7: once a remove has destroyed a Group as empty, mutt_pattern_group with
\* its name makes a Group in a cell that held no Group, with that name and
\* without addresses and patterns, and registers it under the name.
C7_ResolveAfterDestroy ==
  [][\A n \in Names :
       (op' = "pattern_group" /\ n \in StillGone /\ PatternGroup(n)) =>
         /\ ret' # NULL
         /\ ~heap[ret'].live
         /\ heap'[ret'] = NewGroup(n)
         /\ {e \in Groups' : e[1] = n} = {<<n, ret'>>}]_vars

\* the Group returned bears a name whose Group a remove destroyed
C7_Witness ==
  /\ op = "pattern_group" /\ ret # NULL
  /\ heap[ret].name \in destroyed
  /\ IsEmptyCell(heap[ret])

Unchanged(g) ==
  /\ heap'[g] = heap[g]
  /\ {e \in Groups' : e[2] = g} = {e \in Groups : e[2] = g}

HasPattern(cell, s) == \E i \in 1..Len(cell.rs) : cell.rs[i].pattern = s

\* C8: the remove fan-outs are fail-fast.  When the removal fails at the
\* i-th Group of the context (a Group that lacks the pattern; any Group when
\* the address list is absent), the call returns failure and every Group
\* after position i keeps its addresses, its patterns and its registry entry.
C8_RemoveFailFast ==
  [][/\ \A c \in CtxIds, s \in RemoveRegexArgs :
          (op' = "remove_regex" /\ ~crashed' /\ ContextRemoveRegex(c, s)) =>
            \A i \in 1..Len(ctx[c]) :
              (/\ heap[ctx[c][i]].live
               /\ ~HasPattern(heap[ctx[c][i]], s)
               /\ \A j \in 1..(i - 1) :
                    heap[ctx[c][j]].live => HasPattern(heap[ctx[c][j]], s))
              => /\ ret' = -1
                 /\ \A j \in (i + 1)..Len(ctx[c]) : Unchanged(ctx[c][j])
     /\ \A c \in CtxIds :
          (/\ op' = "remove_addrlist" /\ ~crashed' /\ ctx[c] # <<>>
           /\ ContextRemoveAddrlist(c, <<>>)) =>
            /\ ret' = -1
            /\ \A j \in 2..Len(ctx[c]) : Unchanged(ctx[c][j])
    ]_vars

\* remove_regex failed at the first Group and the second still has a pattern
C8_Witness ==
  /\ op = "remove_regex" /\ ret = -1
  /\ \E c \in CtxIds :
       /\ Len(ctx[c]) = 2
       /\ heap[ctx[c][2]].live
       /\ heap[ctx[c][2]].rs # <<>>
       /\ ~(heap[ctx[c][1]].live /\ heap[ctx[c][1]].rs # <<>>)

\* C9: mutt_group_context_clear returns 0 for every context, leaves it
\* empty, and leaves none of the Groups it referenced in the registry.
C9_ClearAlwaysSucceeds ==
  [][\A c \in CtxIds :
       (op' = "clear" /\ ContextClear(c)) =>
         /\ ~crashed'
         /\ ret' = 0
         /\ ctx'[c] = <<>>
         /\ \A g \in Entries(ctx[c]) : Absent(heap', Groups', g)]_vars

\* C10: mutt_group_context_destroy empties the reference list and changes
\* neither the registry nor any Group.
C10_DestroyKeepsGroups ==
  [][\A c \in CtxIds :
       (op' = "context_destroy" /\ ContextDestroy(c)) =>
         (ctx'[c] = <<>> /\ heap' = heap /\ Groups' = Groups)]_vars

\* the list was released and a Group with content is still registered
C10_Witness ==
  /\ op = "context_destroy"
  /\ \A c \in CtxIds : ctx[c] = <<>>
  /\ \E e \in Groups : ~IsEmptyCell(heap[e[2]])

\* C11: destruction is total and idempotent.  A clear of a context whose
\* Groups are all absent already (destroyed and off the registry) is a no-op:
\* the call returns, and the registry and every Group are as they were.
C11_DestroyAbsentNoOp ==
  [][\A c \in CtxIds :
       (/\ op' = "clear"
        /\ ctx[c] # <<>>
        /\ \A g \in Entries(ctx[c]) : Absent(heap, Groups, g)
        /\ ContextClear(c)) =>
         (~crashed' /\ ret' = 0 /\ heap' = heap /\ Groups' = Groups)]_vars

\* C12: mutt_pattern_group never fails.  It can return for every name, and
\* for every name it is called with it returns a Group that is registered
\* under that name, and under no other, after the call.
C12_ResolveNeverFails ==
  /\ [](~crashed => \A k \in Names : ENABLED PatternGroup(k))
  /\ [][\A k \in Names :
          (op' = "pattern_group" /\ PatternGroup(k)) =>
            /\ ret' # NULL
            /\ InRegistry(heap', Groups', ret')
            /\ heap'[ret'].name = k
            /\ mutt_hash_find(Groups', k) = ret']_vars

\* a name resolved to a Group just made while another Group was registered
C12_Witness ==
  /\ op = "pattern_group" /\ ret # NULL
  /\ IsEmptyCell(heap[ret])
  /\ \E e \in Groups : e[2] # ret

C14_GroupRemoveAddrlist ==
  [][\A g \in Ptr, L \in AddrArgs :
       (op' = "group_remove_addrlist" /\ GroupRemoveAddrlist(g, L)) =>
         /\ ~crashed'
         /\ ret' = IF g = NULL \/ L = <<>> THEN -1 ELSE 0
         /\ Groups' = Groups
         /\ (ret' = -1) => (heap' = heap)
         /\ (ret' = 0) =>
              /\ heap'[g] = [heap[g] EXCEPT
                               !.as = SelectSeq(@, LAMBDA m : m \notin Entries(L))]
              /\ \A o \in Addr \ {g} : heap'[o] = heap[o]]_vars

\* a removal succeeded on a Group that keeps two mailboxes, one of them in
\* upper case
C14_Witness ==
  /\ op = "group_remove_addrlist" /\ ret = 0
  /\ \E g \in Addr : heap[g].live /\ heap[g].as = <<Str_b, Str_A>>

\* C15: no dangling references.  In every state of a running process, every
\* pointer on a context list is the address of a live Group that is in the
\* registry.
C15_NoDanglingReference ==
  ~crashed => \A c \in CtxIds : \A g \in Entries(ctx[c]) : InRegistry(heap, Groups, g)

\* C16: no operation acts on a destroyed Group.  A clear, and an
\* add_addrlist with a present list, go through every pointer of the list; a
\* remove fan-out reads at least the Group of the first; none of these
\* pointers is the address of a Group that was destroyed.
C16_NoUseAfterDestroy ==
  [][\A c \in CtxIds :
       /\ (op' = "clear" /\ ContextClear(c)) =>
            DanglingAt(heap, ctx[c]) = {}
       /\ (/\ op' = "add_addrlist"
           /\ \E a \in AddrLists \ {<<>>} : ContextAddAddrlist(c, a)) =>
            DanglingAt(heap, ctx[c]) = {}
       /\ (/\ op' \in {"remove_addrlist", "remove_regex"}
           /\ \/ \E a \in AddrLists : ContextRemoveAddrlist(c, a)
              \/ \E s \in RemoveRegexArgs : ContextRemoveRegex(c, s)) =>
            1 \notin DanglingAt(heap, ctx[c])]_vars

\* C17: the emptiness check of a remove fan-out runs whatever the status of
\* the removal.  When the removal fails at a Group g (the first Group of the
\* list that lacks the pattern; the first Group when the address list is
\* absent), the call returns failure, and g is destroyed and off the registry
\* if it had no addresses and no patterns, and is left as it was otherwise.
C17_EmptyCheckOnFailure ==
  [][/\ \A c \in CtxIds, s \in RemoveRegexArgs :
          (op' = "remove_regex" /\ ~crashed' /\ ContextRemoveRegex(c, s)) =>
            \A i \in 1..Len(ctx[c]) :
              (/\ heap[ctx[c][i]].live
               /\ ~HasPattern(heap[ctx[c][i]], s)
               /\ \A j \in 1..(i - 1) :
                    heap[ctx[c][j]].live /\ HasPattern(heap[ctx[c][j]], s))
              => /\ ret' = -1
                 /\ IF IsEmptyCell(heap[ctx[c][i]])
                    THEN Absent(heap', Groups', ctx[c][i])
                    ELSE Unchanged(ctx[c][i]) /\ InRegistry(heap', Groups', ctx[c][i])
     /\ \A c \in CtxIds :
          (/\ op' = "remove_addrlist" /\ ~crashed' /\ ctx[c] # <<>>
           /\ heap[ctx[c][1]].live
           /\ ContextRemoveAddrlist(c, <<>>)) =>
            /\ ret' = -1
            /\ IF IsEmptyCell(heap[ctx[c][1]])
               THEN Absent(heap', Groups', ctx[c][1])
               ELSE Unchanged(ctx[c][1]) /\ InRegistry(heap', Groups', ctx[c][1])
    ]_vars

\* a remove failed and nothing is registered: the Group it failed at, which
\* never held an address or a pattern, is gone
C17_Witness ==
  /\ op \in {"remove_regex", "remove_addrlist"} /\ ret = -1 /\ ~crashed
  /\ Groups = {}
  /\ \E c \in CtxIds : Len(ctx[c]) = 1
  /\ Cardinality(destroyed) = 1

====
